---- MODULE Spec2Model ----
(***************************************************************************)
(* Model of src/main.py: class Looper, which posts a rotating announcement *)
(* to a Twitch chat on a wall-clock aligned interval.                      *)
(*                                                                         *)
(* Time is counted in clock ticks, TicksPerSecond ticks to the second (the *)
(* datetime of the source resolves 10^6 microseconds to the second; the    *)
(* tick plays the part of the microsecond field).  The interval of the     *)
(* configuration is a whole number of ticks, and the arithmetic on it is   *)
(* exact: Python's float % keeps 0 <= x % i < i for i > 0, which is all    *)
(* the wait computation relies on.  Announcement lists are non-empty, as   *)
(* the configuration is meant to supply them, except under SpecAny, which  *)
(* also constructs a Looper over the empty list.                           *)
(***************************************************************************)
EXTENDS Integers, Sequences, FiniteSets, TLC

VARIABLES
    announcements,   \* self.announcements: the list of messages
    ignore_offline,  \* self.ignore_offline
    interval,        \* self.interval, in ticks
    broadcaster_id,  \* self.broadcaster_id
    moderator_id,    \* self.moderator_id
    headers,         \* self.headers
    index,           \* self.index: 0-based cursor into announcements
    pc,              \* position of run/send_announcement
    clock,           \* the wall clock: ticks since 00:00:00 of day 1 of the month
    now,             \* the datetime read at the top of send_announcement
    seconds_until_announcement, \* the duration handed to time.sleep, in ticks
    start_index,     \* self.index as it was when this cycle began
    message,         \* the message carried by the POST issued last
    get_response,    \* what the status request of this cycle came back with
    post_response,   \* what the POST of this cycle came back with
    last_post,       \* the last POST that has returned: its message and what came back
    gets,            \* status requests issued in this cycle
    posts,           \* POST requests issued in this cycle
    cycles,          \* calls of send_announcement so far
    sent,            \* POSTs answered with 204 No Content so far
    wake_at,         \* the clock value the sleep of this cycle aims at
    since_wake,      \* ticks gone by since the instant the last sleep aimed at
    restarts,        \* times the process was started again
    index_before     \* self.index of the process that was running before the last restart

vars == <<announcements, ignore_offline, interval, broadcaster_id, moderator_id,
          headers, index, pc, clock, now, seconds_until_announcement,
          start_index, message, get_response, post_response, last_post, gets,
          posts, cycles, sent, wake_at, since_wake, restarts, index_before>>

\* the schedule configuration
settings == <<ignore_offline, interval, broadcaster_id, moderator_id, headers>>

config == <<announcements, settings>>

\* the process and what came before it
process == <<restarts, index_before>>

-----------------------------------------------------------------------------
(* Bounds of the model *)

TicksPerSecond == 2      \* resolution of the clock
DaysInMonth == 31        \* the month the clock runs through
MaxCycles == 4           \* calls of send_announcement explored
MaxLag == 1              \* ticks time.sleep may return late by (or on time)
MaxLatency == 1          \* ticks an answered request takes (or none)
MaxLen == 3              \* longest announcement list
MaxRestarts == 1         \* times the process is started again

(* Program constants *)

SECONDS_IN_A_MINUTE == 60
POST_TIMEOUT == 60
STATUS_OK == 200
STATUS_NO_CONTENT == 204

-----------------------------------------------------------------------------
(* datetime *)

\* datetime.timedelta(days, minutes, seconds, microseconds) / timedelta(seconds=1),
\* in ticks
timedelta(days, minutes, seconds, microseconds) ==
    ((days * 24 * 60 + minutes) * 60 + seconds) * TicksPerSecond + microseconds

MonthTicks == timedelta(DaysInMonth, 0, 0, 0)

\* datetime.datetime.now(): the fields of the wall clock
datetime_now(c) ==
    [day         |-> 1 + (c \div timedelta(1, 0, 0, 0)),
     hour        |-> (c % timedelta(1, 0, 0, 0)) \div timedelta(0, 60, 0, 0),
     minute      |-> (c % timedelta(0, 60, 0, 0)) \div timedelta(0, 1, 0, 0),
     second      |-> (c % timedelta(0, 1, 0, 0)) \div timedelta(0, 0, 1, 0),
     microsecond |-> c % timedelta(0, 0, 1, 0)]

\* the clock value showing the given fields
ClockAt(day, hour, minute, second, microsecond) ==
    timedelta(day - 1, hour * 60 + minute, second, microsecond)

\* the clock after d more ticks (the day of month starts over after the last day)
Advance(c, d) == (c + d) % MonthTicks

-----------------------------------------------------------------------------
(* The pure parts of Looper *)

\* lines 55-60: the elapsed term of send_announcement
ElapsedNoMinutes(n) == timedelta(n.day, 0, n.second, n.microsecond)
Elapsed(n) == timedelta(n.day, n.minute, n.second, n.microsecond)

\* lines 55-60: seconds_until_announcement
SecondsUntilWrapped(n, i) == (i - (Elapsed(n) % i)) % i
SecondsUntilSignSlip(n, i) == i + (Elapsed(n) % i)
SecondsUntilAnnouncement(n, i) == i - (Elapsed(n) % i)

\* line 88: the cursor after a successful post
NextIndexNoWrap(i, len) == i + 1
NextIndexStuck(i, len) == i
NextIndex(i, len) == (i + 1) % len

\* line 35: the cursor a new Looper starts with, whatever the cursor of the
\* process before it was
index_persisted(previous) == previous
index_at_construction(previous) == 0

\* line 88: the list after a successful post (the cursor moves, the list stays)
announcements_rotated(list) == Tail(list) \o <<Head(list)>>
announcements_after_send(list) == list

\* line 76: whether the cycle asks for the channel's status before posting
checks_always(offline) == TRUE
checks_status(offline) == offline

\* lines 131-134
get_announcement(list, i) == list[i + 1]

\* lines 136-144: response.status_code == status_code
check_status_code(response, status_code) == response.status_code = status_code

-----------------------------------------------------------------------------
(* Requests.  What a request comes back with is a record: raised names the  *)
(* exception requests raised ("none" when a response arrived), status_code  *)
(* the HTTP status and data the number of entries of the body's data list   *)
(* (-1: the body is no JSON document).                                      *)

NoResponse == [raised |-> "unsent", status_code |-> 0, data |-> 0]

Statuses == {STATUS_OK, STATUS_NO_CONTENT, 500}

Answers ==
    [raised : {"none"}, status_code : Statuses, data : {-1, 0, 1}]

Faults ==
    [raised : {"Timeout", "ConnectionError"}, status_code : {0}, data : {0}]

GetOutcomes == Answers \cup Faults
PostOutcomes == {r \in Answers : r.data = 0} \cup Faults

\* What a call returns: a value, or the exception it raised
Return(v) == [raised |-> "none", value |-> v]
Raise(e) == [raised |-> e, value |-> FALSE]

\* lines 99-111: get_online
get_online_ignores_data(r) ==
    IF r.raised # "none" THEN Raise(r.raised)
    ELSE Return(check_status_code(r, STATUS_OK))
get_online(r) ==
    IF r.raised # "none" THEN Raise(r.raised)
    ELSE IF ~check_status_code(r, STATUS_OK) THEN Return(FALSE)
    ELSE IF r.data < 0 THEN Raise("JSONDecodeError")
    ELSE Return(r.data > 0)

\* lines 113-129: post_announce
post_announce_ok_status(r) ==
    IF r.raised # "none" THEN Raise(r.raised)
    ELSE Return(check_status_code(r, STATUS_OK))
post_announce(r) ==
    IF r.raised # "none" THEN Raise(r.raised)
    ELSE Return(check_status_code(r, STATUS_NO_CONTENT))

\* lines 90-97: try_request, applied to what the request did
try_request_catch_all(result) ==
    IF result.raised # "none" THEN Return(FALSE) ELSE result
try_request_no_catch(result) == result
try_request(result) ==
    IF result.raised = "Timeout" THEN Return(FALSE) ELSE result

\* the chat took the announcement: the endpoint answered 204 No Content
Delivered(r) == r.raised = "none" /\ r.status_code = 204

\* how long a request takes: the timeout when it times out
Durations(r, timeout) ==
    IF r.raised = "Timeout"
    THEN {timeout * TicksPerSecond}
    ELSE {0, MaxLatency}

-----------------------------------------------------------------------------
(* Configurations and starting times *)

Alphabet == <<"A", "B", "C", "D", "E">>

Lists == {SubSeq(Alphabet, 1, n) : n \in 1 .. MaxLen}

\* intervals of 7 s, 5 min and 2 h
Intervals == {7 * TicksPerSecond, 300 * TicksPerSecond, 7200 * TicksPerSecond}

StartTimes ==
    {ClockAt(1, 0, 0, 0, 0),
     ClockAt(2, 10, 4, 59, 1),
     ClockAt(DaysInMonth, 23, 59, 59, TicksPerSecond - 1)}

\* every minute of the hour, on a few days, hours, seconds and ticks
WallClocks ==
    {ClockAt(d, h, m, s, u) :
        d \in {1, 2, DaysInMonth}, h \in {0, 23}, m \in 0 .. 59,
        s \in {0, 1, 30, 59}, u \in 0 .. TicksPerSecond - 1}

-----------------------------------------------------------------------------
(* Looper.__init__, lines 18-42, followed by the call of run *)

Construct(list, offline, i, c) ==
    /\ announcements = list
    /\ ignore_offline = offline
    /\ interval = i
    /\ broadcaster_id = "broadcaster"
    /\ moderator_id = "moderator"
    /\ headers = [Authorization |-> "Bearer token", ClientId |-> "client"]
    /\ index = index_at_construction(0)
    /\ pc = "send_announcement"
    /\ clock = c
    /\ now = datetime_now(c)
    /\ seconds_until_announcement = 0
    /\ start_index = 0
    /\ message = ""
    /\ get_response = NoResponse
    /\ post_response = NoResponse
    /\ last_post = [message |-> "", response |-> NoResponse]
    /\ gets = 0
    /\ posts = 0
    /\ cycles = 0
    /\ sent = 0
    /\ wake_at = c
    /\ since_wake = 0
    /\ restarts = 0
    /\ index_before = 0

Init ==
    \E list \in Lists, offline \in BOOLEAN, i \in Intervals, c \in StartTimes :
        Construct(list, offline, i, c)

-----------------------------------------------------------------------------
(* Looper.send_announcement, lines 50-88, cut at the calls that block *)

\* lines 53-73: read the clock, compute the wait, call time.sleep
BeginCycle(n) ==
    /\ pc = "send_announcement"
    /\ now' = datetime_now(clock)
    /\ seconds_until_announcement' = SecondsUntilAnnouncement(now', interval)
    /\ wake_at' = Advance(clock, seconds_until_announcement')
    /\ pc' = "sleep"
    /\ cycles' = n
    /\ start_index' = index
    /\ gets' = 0
    /\ posts' = 0
    /\ get_response' = NoResponse
    /\ post_response' = NoResponse
    /\ UNCHANGED <<config, index, clock, message, last_post, sent, since_wake,
                   process>>

ComputeWait ==
    /\ cycles < MaxCycles
    /\ BeginCycle(cycles + 1)

\* lines 80-86 and 116-127: requests.post is called with the current announcement
IssuePost ==
    /\ pc' = "post"
    /\ posts' = posts + 1
    /\ message' = get_announcement(announcements, index)

\* lines 80-86: the announcement is fetched for the log line (an IndexError
\* when the cursor is no index of the list leaves send_announcement and run),
\* then posted
Announce ==
    IF index < Len(announcements)
    THEN IssuePost
    ELSE /\ pc' = "raised"
         /\ UNCHANGED <<posts, message>>

\* lines 73-76: time.sleep returns, and the first request of the cycle is issued
Wake(lag) ==
    /\ pc = "sleep"
    /\ clock' = Advance(clock, seconds_until_announcement + lag)
    /\ since_wake' = lag
    /\ IF checks_status(ignore_offline)
       THEN /\ pc' = "get"
            /\ gets' = gets + 1
            /\ UNCHANGED <<posts, message>>
       ELSE /\ Announce
            /\ UNCHANGED gets
    /\ UNCHANGED <<config, index, now, seconds_until_announcement, start_index,
                   get_response, post_response, last_post, cycles, sent, wake_at,
                   process>>

\* lines 76-78: the status request comes back
GetReturn(r, d) ==
    /\ pc = "get"
    /\ clock' = Advance(clock, d)
    /\ since_wake' = since_wake + d
    /\ get_response' = r
    /\ LET online == try_request(get_online(r)) IN
         IF online.raised # "none"
         THEN /\ pc' = "raised"
              /\ UNCHANGED <<posts, message>>
         ELSE IF ~online.value
         THEN /\ pc' = "send_announcement"
              /\ UNCHANGED <<posts, message>>
         ELSE Announce
    /\ UNCHANGED <<config, index, now, seconds_until_announcement, start_index,
                   post_response, last_post, gets, cycles, sent, wake_at, process>>

\* lines 86-88: the POST comes back
PostReturn(r, d) ==
    /\ pc = "post"
    /\ clock' = Advance(clock, d)
    /\ since_wake' = since_wake + d
    /\ post_response' = r
    /\ last_post' = [message |-> message, response |-> r]
    /\ sent' = IF Delivered(r) /\ sent < MaxCycles THEN sent + 1 ELSE sent
    /\ LET success == try_request(post_announce(r)) IN
         IF success.raised # "none"
         THEN /\ pc' = "raised"
              /\ UNCHANGED <<index, announcements>>
         ELSE IF success.value
         THEN /\ index' = NextIndex(index, Len(announcements))
              /\ announcements' = announcements_after_send(announcements)
              /\ pc' = "send_announcement"
         ELSE /\ pc' = "send_announcement"
              /\ UNCHANGED <<index, announcements>>
    /\ UNCHANGED <<settings, now, seconds_until_announcement, start_index,
                   message, get_response, gets, posts, cycles, wake_at, process>>

Sleep == \E lag \in {0, MaxLag} : Wake(lag)

StatusCheck ==
    \E r \in GetOutcomes : \E d \in Durations(r, SECONDS_IN_A_MINUTE) : GetReturn(r, d)

Post ==
    \E r \in PostOutcomes : \E d \in Durations(r, POST_TIMEOUT) : PostReturn(r, d)

\* lines 44-48: run
Next == ComputeWait \/ Sleep \/ StatusCheck \/ Post

Spec == Init /\ [][Next]_vars

-----------------------------------------------------------------------------
(* The loop over every list json.load can hand to Looper, the empty one too *)

AnyLists == Lists \cup {<<>>}

InitAny ==
    \E list \in AnyLists, offline \in BOOLEAN, i \in Intervals, c \in StartTimes :
        Construct(list, offline, i, c)

SpecAny == InitAny /\ [][Next]_vars

-----------------------------------------------------------------------------
(* The loop running on for ever: cycles are started without end (they are   *)
(* counted up to MaxCycles only), the clock runs round the month.  Every    *)
(* call that blocks returns: time.sleep after its duration, a request with  *)
(* an answer or after its timeout, so the loop always takes its next step.  *)

\* an interval as long as the month, which keeps the clock values met few
LiveIntervals == {MonthTicks}

ComputeWaitOn == BeginCycle(IF cycles < MaxCycles THEN cycles + 1 ELSE cycles)

NextLive == ComputeWaitOn \/ Sleep \/ StatusCheck \/ Post

InitLive ==
    \E list \in Lists, offline \in BOOLEAN, i \in LiveIntervals :
        Construct(list, offline, i, ClockAt(2, 10, 4, 59, 1))

SpecLive == InitLive /\ [][NextLive]_vars /\ WF_vars(NextLive)

-----------------------------------------------------------------------------
(* The process is stopped, at any point, and the script is started again on *)
(* the same configuration file: main, lines 147-161, builds a new Looper.   *)
(* Nothing of the old Looper is kept anywhere (cycles and sent go on        *)
(* counting, they are no state of the program).                             *)

Restart ==
    /\ restarts < MaxRestarts
    /\ restarts' = restarts + 1
    /\ index_before' = index
    /\ index' = index_at_construction(index)
    /\ pc' = "send_announcement"
    /\ clock' = Advance(clock, MaxLatency)
    /\ now' = datetime_now(clock')
    /\ seconds_until_announcement' = 0
    /\ start_index' = 0
    /\ message' = ""
    /\ get_response' = NoResponse
    /\ post_response' = NoResponse
    /\ last_post' = [message |-> "", response |-> NoResponse]
    /\ gets' = 0
    /\ posts' = 0
    /\ wake_at' = clock'
    /\ since_wake' = 0
    /\ UNCHANGED <<config, cycles, sent>>

NextRestart == Next \/ Restart

InitRestart ==
    \E list \in Lists, offline \in BOOLEAN :
        Construct(list, offline, 300 * TicksPerSecond, ClockAt(2, 10, 4, 59, 1))

SpecRestart == InitRestart /\ [][NextRestart]_vars

-----------------------------------------------------------------------------
(* The wait computation alone, over a wide set of wall-clock times *)

\* also intervals of one tick, 1 min and 1 h
WaitIntervals ==
    Intervals \cup {1, 60 * TicksPerSecond, 3600 * TicksPerSecond}

InitWait ==
    \E i \in WaitIntervals, c \in WallClocks :
        Construct(SubSeq(Alphabet, 1, 1), FALSE, i, c)

SpecWait == InitWait /\ [][ComputeWait]_vars

-----------------------------------------------------------------------------
(* Vocabulary of the properties *)

Length == Len(announcements)

\* seconds (in ticks) elapsed since the start of the current hour
HourElapsed(n) == timedelta(0, n.minute, n.second, n.microsecond)

\* the wait of this cycle has been computed
Computed == cycles > 0

\* the cycle that was started last has ended
CycleOver == cycles > 0 /\ pc \in {"send_announcement", "raised"}

\* a POST that failed: an answer other than 204, or a request timeout
PostFailed(r) ==
    \/ r.raised = "Timeout"
    \/ r.raised = "none" /\ r.status_code # 204

\* a status check that did not confirm the channel online: a request timeout,
\* an answer other than 200, or an answer of 200 with an empty data list
NotOnline(r) ==
    \/ r.raised = "Timeout"
    \/ r.raised = "none" /\ r.status_code # 200
    \/ r.raised = "none" /\ r.status_code = 200 /\ r.data = 0

\* every cycle that ended so far had its POST answered 204
AllDelivered == sent = (IF pc = "send_announcement" THEN cycles ELSE cycles - 1)

-----------------------------------------------------------------------------
\* C1, as stated: the wait W handed to time.sleep satisfies 0 <= W < I.
C1_WaitBelowInterval ==
    Computed =>
        0 <= seconds_until_announcement /\ seconds_until_announcement < interval

\* C1, amended: the wait W handed to time.sleep satisfies 0 < W <= I, and
\* when 'now' lies exactly on an interval boundary the wait is the whole
\* interval I.
C1_WaitRange ==
    Computed =>
        /\ 0 < seconds_until_announcement
        /\ seconds_until_announcement <= interval
        /\ (Elapsed(now) % interval = 0 => seconds_until_announcement = interval)

C1_Witness ==
    /\ pc = "sleep"
    /\ Elapsed(now) % interval = 0
    /\ seconds_until_announcement = interval

\* C2: the wake-up instant is aligned to an interval boundary counted from
\* the top of the hour: (seconds since the start of the hour + W) mod I = 0.
C2_TopOfHourAligned ==
    Computed => (HourElapsed(now) + seconds_until_announcement) % interval = 0

\* C3: a cycle whose POST fails (an answer other than 204, or a timeout)
\* leaves the cursor unchanged, and the next POST issued carries the same
\* message as the failed one.
C3_FailedPostRetried ==
    /\ PostFailed(post_response) => index = start_index
    /\ (pc = "post" /\ PostFailed(last_post.response)) =>
           message = last_post.message

C3_Witness ==
    /\ pc = "post"
    /\ PostFailed(last_post.response)
    /\ last_post.response.raised = "none"
    /\ index > 0

\* C4: from a fresh Looper, after N consecutive successful posts the cursor
\* is N mod L, and the POST issued next carries the announcement at N mod L.
C4_CursorAfterSuccesses ==
    AllDelivered =>
        /\ index = sent % Length
        /\ pc = "post" => message = announcements[(sent % Length) + 1]

C4_Witness ==
    /\ announcements = <<"A", "B", "C">>
    /\ ~ignore_offline
    /\ AllDelivered
    /\ sent = 3
    /\ index = 0
    /\ pc = "post"
    /\ message = "A"

\* C5: with ignore_offline set, a status check that yields a timeout, a
\* status other than 200 or 200 with an empty data list ends the cycle with
\* no POST issued and the cursor as it was, and the loop goes on.
C5_OfflineSkips ==
    (ignore_offline /\ NotOnline(get_response)) =>
        /\ posts = 0
        /\ index = start_index
        /\ pc = "send_announcement"

C5_Witness ==
    /\ ignore_offline
    /\ get_response.raised = "none"
    /\ get_response.status_code = 200
    /\ get_response.data = 0
    /\ index > 0
    /\ cycles > sent + 1

\* C6: with ignore_offline false no status request is ever issued, and every
\* cycle issues exactly one POST, of the current announcement, after its sleep.
C6_NoStatusCheck ==
    ~ignore_offline =>
        /\ gets = 0
        /\ get_response = NoResponse
        /\ pc = "sleep" => posts = 0
        /\ pc = "post" => posts = 1 /\ message = announcements[start_index + 1]
        /\ CycleOver => posts = 1

C6_Witness ==
    /\ ~ignore_offline
    /\ CycleOver
    /\ cycles > 1
    /\ posts = 1
    /\ PostFailed(post_response)

\* C7: in every reachable state the cursor is a valid index into the
\* announcement list: 0 <= cursor < length.
C7_CursorInRange == 0 <= index /\ index < Length

C7_Witness ==
    /\ Length > 1
    /\ sent = Length
    /\ index = 0
    /\ cycles > sent

\* C8: the k-th successful POST carries announcements[(k-1) mod L] whatever
\* failures and skips lie between, and the cursor moves by exactly one
\* position (with wraparound) on a successful POST and on no other step.
C8_RoundRobin ==
    /\ [](Delivered(post_response) =>
             message = announcements[((sent - 1) % Length) + 1])
    /\ [][/\ (pc = "post" /\ Delivered(post_response')) =>
                 index' = (index + 1) % Length
          /\ ~(pc = "post" /\ Delivered(post_response')) => index' = index]_vars

C8_Witness ==
    /\ Delivered(post_response)
    /\ sent = 2
    /\ cycles = 4
    /\ message = "B"

\* C9: a request timeout on the status check or on the POST is caught: the
\* cycle ends with the cursor unchanged, with at most one request of each
\* kind issued (no POST after a status check that timed out), and run goes
\* on to the next cycle.
C9_TimeoutNonFatal ==
    /\ get_response.raised = "Timeout" =>
           /\ pc = "send_announcement"
           /\ index = start_index
           /\ gets = 1
           /\ posts = 0
    /\ post_response.raised = "Timeout" =>
           /\ pc = "send_announcement"
           /\ index = start_index
           /\ gets <= 1
           /\ posts = 1

C9_Witness ==
    /\ get_response.raised = "Timeout"
    /\ last_post.response.raised = "Timeout"
    /\ pc = "send_announcement"
    /\ cycles > 1

\* C10: a transport fault other than a timeout, raised by the status check or
\* by the POST, propagates out of send_announcement and run: the loop is
\* over, no step of it follows, and the cursor is as the cycle found it.
C10_FaultFatal ==
    (get_response.raised = "ConnectionError"
        \/ post_response.raised = "ConnectionError") =>
        /\ pc = "raised"
        /\ ~ENABLED Next
        /\ index = start_index
        /\ get_response.raised = "ConnectionError" => posts = 0

C10_Witness ==
    /\ pc = "raised"
    /\ post_response.raised = "ConnectionError"
    /\ sent > 0

\* C11: a configuration with no announcements is refused at startup: with
\* an empty list no cycle runs, so nothing sleeps and no status request and
\* no POST is made.
C11_EmptyRefused ==
    Length = 0 =>
        /\ cycles = 0
        /\ pc \notin {"sleep", "get", "post"}
        /\ gets = 0
        /\ posts = 0

\* what came back in this cycle is among: success, a wrong HTTP status, an
\* empty data list, a timeout
NormalOutcome(r) ==
    \/ r = NoResponse
    \/ r.raised = "Timeout"
    \/ r.raised = "none" /\ r.data >= 0

\* C12: run never returns under normal operation: with a non-empty list and
\* every request ending in success, a wrong status, empty data or a timeout,
\* the loop is never left, and every cycle that ends is followed by the
\* start of another one (a new wait computation and sleep).
C12_RunsForever ==
    /\ []((NormalOutcome(get_response) /\ NormalOutcome(post_response)) =>
              pc # "raised")
    /\ (CycleOver /\ pc = "send_announcement") ~> (pc = "sleep")

C12_Witness ==
    /\ pc = "sleep"
    /\ cycles = MaxCycles
    /\ last_post.response.raised = "Timeout"
    /\ sent > 0

\* no POST has come back since the Looper was constructed
NothingPostedYet == last_post.response = NoResponse

\* C13: the cursor is kept in memory only: after every restart it is 0,
\* whatever it was before, so the first message posted after a restart is
\* announcements[0].
C13_RestartResetsCursor ==
    /\ NothingPostedYet => index = 0
    /\ (NothingPostedYet /\ pc = "post") => message = announcements[1]

C13_Witness ==
    /\ restarts > 0
    /\ index_before > 0
    /\ NothingPostedYet
    /\ pc = "post"
    /\ message = "A"

\* C14: the duration handed to time.sleep is at most the interval.
C14_SleepAtMostInterval == Computed => seconds_until_announcement <= interval

C14_Witness ==
    /\ pc = "sleep"
    /\ interval = 7200 * TicksPerSecond
    /\ seconds_until_announcement = interval
    /\ now.hour = 23

\* the time from the instant the last sleep aimed at to the instant this
\* sleep aims at
WakeGap == since_wake + seconds_until_announcement

\* C17: the wait is strictly positive, a cycle that starts exactly on an
\* interval boundary sleeps a whole interval, and successive wake-up
\* instants are strictly increasing: no two cycles aim at the same instant.
C17_WaitPositive ==
    Computed =>
        /\ seconds_until_announcement >= 1
        /\ (Elapsed(now) % interval = 0) =>
               seconds_until_announcement = interval
        /\ (cycles > 1 /\ pc = "sleep") => WakeGap >= 1

C17_Witness ==
    /\ cycles > 1
    /\ pc = "sleep"
    /\ since_wake = 0
    /\ Elapsed(now) % interval = 0
    /\ WakeGap = interval

\* the interval divides the hour
DividesHour == timedelta(0, 60, 0, 0) % interval = 0

\* C18: whenever the interval divides 3600 seconds, the wake-up instant is a
\* multiple of the interval counted from the top of the hour, on every day
\* of the month and in every hour, also when the sleep runs over the end of
\* the hour or of the day.
C18_HourGrid ==
    (Computed /\ DividesHour) =>
        /\ (HourElapsed(now) + seconds_until_announcement) % interval = 0
        /\ HourElapsed(datetime_now(wake_at)) % interval = 0

C18_Witness ==
    /\ pc = "sleep"
    /\ interval = 300 * TicksPerSecond
    /\ now.day = 2
    /\ now.hour = 23
    /\ datetime_now(wake_at).day = 3
    /\ datetime_now(wake_at).hour = 0

\* the status check confirmed the channel online: 200 with a stream in data
ConfirmedOnline(r) == r.raised = "none" /\ r.status_code = 200 /\ r.data > 0

\* C15: in each cycle the sleep comes first, then (only with ignore_offline)
\* one status GET, then at most one POST; a request is issued only when the
\* one before it has come back, none is repeated within the cycle, and the
\* next attempt is made only after the next cycle's sleep.
C15_OneRequestAtATime ==
    /\ [](/\ gets <= 1 /\ posts <= 1
          /\ gets = 1 => ignore_offline
          /\ pc = "sleep" => gets = 0 /\ posts = 0
          /\ pc = "get" =>
                 gets = 1 /\ posts = 0 /\ get_response = NoResponse
          /\ pc = "post" =>
                 /\ posts = 1
                 /\ post_response = NoResponse
                 /\ gets = (IF ignore_offline THEN 1 ELSE 0)
                 /\ gets = 1 => ConfirmedOnline(get_response))
    /\ [][/\ gets' > gets => pc = "sleep"
          /\ posts' > posts => pc = (IF ignore_offline THEN "get" ELSE "sleep")
          /\ (pc \in {"get", "post"} /\ pc' # pc) =>
                 (IF pc = "get" THEN get_response' ELSE post_response') # NoResponse]_vars

C15_Witness ==
    /\ ignore_offline
    /\ pc = "post"
    /\ gets = 1
    /\ posts = 1
    /\ cycles > 1
    /\ PostFailed(last_post.response)

\* C16: no cycle, whatever its outcome, changes the announcement list, the
\* interval, ignore_offline, the broadcaster id, the moderator id or the
\* headers.
C16_ConfigurationKept ==
    [][/\ announcements' = announcements
       /\ interval' = interval
       /\ ignore_offline' = ignore_offline
       /\ broadcaster_id' = broadcaster_id
       /\ moderator_id' = moderator_id
       /\ headers' = headers]_vars

C16_Witness ==
    /\ cycles = MaxCycles
    /\ CycleOver
    /\ sent > 1
    /\ index > 0
    /\ announcements = SubSeq(Alphabet, 1, Length)
    /\ PostFailed(post_response)

\* C19: while the loop runs on, if POSTs are answered 204 again and again
\* for ever, then every message of the list is posted successfully again
\* and again for ever; and if from some point on no POST is answered 204,
\* the cursor stays where it is for ever.
C19_EveryMessageRecurs ==
    /\ \A k \in 1 .. MaxLen :
           []<>Delivered(post_response) =>
               []<>(k > Length \/ (Delivered(post_response) /\ message = Alphabet[k]))
    /\ <>[](~Delivered(post_response)) =>
           \E i \in 0 .. MaxLen - 1 : <>[](index = i)

C19_Witness ==
    /\ Delivered(post_response)
    /\ Length = MaxLen
    /\ message = Alphabet[MaxLen]
    /\ sent = MaxCycles
    /\ last_post.message = message

====
